---- MODULE Spec2Model ----
(***************************************************************************)
(* Air-cargo booking: the booking lifecycle (update-booking-status edge    *)
(* function together with the bookings / booking_events tables, their      *)
(* triggers and row-level-security policies) and the route finder          *)
(* (get-routes edge function).                                             *)
(*                                                                         *)
(* Every database call of a handler is one atomic step; the handler's own  *)
(* computation between two awaits is folded into the step of the call that *)
(* precedes it (what follows the last call, into the step of that call).   *)
(***************************************************************************)
EXTENDS Integers, Sequences, FiniteSets, TLC

\* ------------------------------------------------------------------ bounds

\* number of update-booking-status requests in one execution (they may overlap)
MaxCalls == 2

\* number of flights in the catalog
MaxFlights == 5

\* number of inserts into bookings in one execution
MaxInserts == 3

\* ------------------------------------------------------------ value domains

\* the absent value: SQL NULL, JS undefined / null
Null == "<null>"

\* JS falsiness of a request field (!x): absent or the empty string
Falsy(x) == x \in {Null, ""}

\* reference codes of the bookings the requests name ('ACB' + 6 characters of
\* [A-Z0-9])
RefPool == {"ACBAAAAAA"}

\* reference codes of the rows inserted into bookings
RefPoolWide == {"ACBAAAAAA", "ACBAAAAAB"}

\* airports used by create-booking requests
BookingOrigins == {"DEL"}
BookingDestinations == {"BOM"}

\* request values of update-booking-status (a code of the pool names no booking
\* while the store is empty)
RefInputs == RefPool \cup {Null}
StatusInputs == {"BOOKED", "DEPARTED", "ARRIVED", "DELIVERED", "CANCELLED", "UNKNOWN", Null}
NotesInputs == {Null, "held at customs"}
FlightIdInputs == {Null, "AI101"}
LocationInputs == {Null, "HYD"}
UserIdInputs == {Null, "", "user-1"}

\* ----------------------------------------------------- update-booking-status

validStatuses == {"BOOKED", "DEPARTED", "ARRIVED", "DELIVERED", "CANCELLED"}

\* variant: an arrived booking can depart again
validTransitions_DepartAgain ==
  [s \in validStatuses |->
     CASE s = "BOOKED"    -> {"DEPARTED", "CANCELLED"}
       [] s = "DEPARTED"  -> {"ARRIVED"}
       [] s = "ARRIVED"   -> {"DELIVERED", "DEPARTED"}
       [] s = "DELIVERED" -> {}
       [] s = "CANCELLED" -> {}]

\* variant: a cancelled booking can be booked again
validTransitions_Reopen ==
  [s \in validStatuses |->
     CASE s = "BOOKED"    -> {"DEPARTED", "CANCELLED"}
       [] s = "DEPARTED"  -> {"ARRIVED"}
       [] s = "ARRIVED"   -> {"DELIVERED"}
       [] s = "DELIVERED" -> {}
       [] s = "CANCELLED" -> {"BOOKED"}]

\* variant: a departed booking can still be cancelled
validTransitions_CancelDeparted ==
  [s \in validStatuses |->
     CASE s = "BOOKED"    -> {"DEPARTED", "CANCELLED"}
       [] s = "DEPARTED"  -> {"ARRIVED", "CANCELLED"}
       [] s = "ARRIVED"   -> {"DELIVERED"}
       [] s = "DELIVERED" -> {}
       [] s = "CANCELLED" -> {}]

validTransitions ==
  [s \in validStatuses |->
     CASE s = "BOOKED"    -> {"DEPARTED", "CANCELLED"}
       [] s = "DEPARTED"  -> {"ARRIVED"}
       [] s = "ARRIVED"   -> {"DELIVERED"}
       [] s = "DELIVERED" -> {}
       [] s = "CANCELLED" -> {}]

\* responses: HTTP status, the error text (or the success message), and the two
\* statuses interpolated into the invalid-transition text
Response(code, msg, cur, req) ==
  [code |-> code, msg |-> msg, current |-> cur, requested |-> req]

NoResponse == Response(0, "", Null, Null)
RequiredError == Response(400, "Booking reference and status are required", Null, Null)
InvalidStatusError == Response(400, "Invalid status", Null, Null)
NotFoundError == Response(404, "Booking not found", Null, Null)
CannotChangeError(cur, req) ==
  Response(400, "Cannot change status from {current} to {requested}", cur, req)
CannotCancelError == Response(400, "Cannot cancel booking that has already arrived", Null, Null)
UpdatedResponse == Response(200, "Booking status updated successfully", Null, Null)
UpdateFailedError == Response(500, "Failed to update booking status", Null, Null)

\* variant: the table check lets every request for CANCELLED through
TransitionListed_CancelListed(tbl, cur, req) ==
  cur \in DOMAIN tbl /\ (req \in tbl[cur] \/ req = "CANCELLED")

\* variant: a request for the status the booking already has passes
TransitionListed_SameStatusPasses(tbl, cur, req) ==
  cur \in DOMAIN tbl /\ (req \in tbl[cur] \/ req = cur)

\* validTransitions[current]?.includes(status)
TransitionListed(tbl, cur, req) ==
  cur \in DOMAIN tbl /\ req \in tbl[cur]

\* variant: the guard only knows DELIVERED
CancelGuard_DeliveredOnly(cur, req) ==
  req = "CANCELLED" /\ cur \in {"DELIVERED"}

\* status === 'CANCELLED' && ['ARRIVED', 'DELIVERED'].includes(current)
CancelGuard(cur, req) ==
  req = "CANCELLED" /\ cur \in {"ARRIVED", "DELIVERED"}

\* variant: the cancel guard runs before the table check
TransitionCheck_GuardFirst(tbl, cur, req) ==
  IF req = "CANCELLED" /\ cur \in {"ARRIVED", "DELIVERED"} THEN CannotCancelError
  ELSE IF ~(cur \in DOMAIN tbl /\ req \in tbl[cur]) THEN CannotChangeError(cur, req)
  ELSE NoResponse

\* the two checks made on the booking that was read, in the handler's order;
\* NoResponse means the handler goes on to the update
TransitionCheck(tbl, cur, req) ==
  IF ~TransitionListed(tbl, cur, req) THEN CannotChangeError(cur, req)
  ELSE IF CancelGuard(cur, req) THEN CannotCancelError
  ELSE NoResponse

\* variant: the status is checked against the known statuses first
RequestCheck_StatusFirst(ref_id, status) ==
  IF status \notin validStatuses THEN InvalidStatusError
  ELSE IF Falsy(ref_id) \/ Falsy(status) THEN RequiredError
  ELSE NoResponse

\* the checks made on the request body before the store is read
RequestCheck(ref_id, status) ==
  IF Falsy(ref_id) \/ Falsy(status) THEN RequiredError
  ELSE IF status \notin validStatuses THEN InvalidStatusError
  ELSE NoResponse

\* ----------------------------------------------------- booking details page

\* variant: the page still lets a departed booking be cancelled
clientTransitions_CancelDeparted ==
  [s \in validStatuses |->
     CASE s = "BOOKED"    -> {"DEPARTED", "CANCELLED"}
       [] s = "DEPARTED"  -> {"ARRIVED", "CANCELLED"}
       [] s = "ARRIVED"   -> {"DELIVERED"}
       [] s = "DELIVERED" -> {}
       [] s = "CANCELLED" -> {}]

\* the validTransitions table inside canUpdateTo
clientTransitions ==
  [s \in validStatuses |->
     CASE s = "BOOKED"    -> {"DEPARTED", "CANCELLED"}
       [] s = "DEPARTED"  -> {"ARRIVED"}
       [] s = "ARRIVED"   -> {"DELIVERED"}
       [] s = "DELIVERED" -> {}
       [] s = "CANCELLED" -> {}]

\* canUpdateTo(status) for a page showing a booking with status currentStatus:
\* validTransitions[currentStatus]?.includes(status) || false
canUpdateTo(currentStatus, status) ==
  currentStatus \in DOMAIN clientTransitions /\ status \in clientTransitions[currentStatus]

\* the statuses the page has a button for
StatusButtons == {"DEPARTED", "ARRIVED", "DELIVERED", "CANCELLED"}

\* {canUpdateTo('...') && (<Button ...>)}: the page shows the button for status
ButtonOffered(currentStatus, status) ==
  status \in StatusButtons /\ canUpdateTo(currentStatus, status)

\* ------------------------------------------------------------------- store

\* row-level security: the edge functions connect with the anon key and forward
\* no user token, so auth.uid() is NULL in every policy
AuthUid == Null

\* auth.uid() = user_id OR user_id IS NULL (NULL = x is not true)
BookingRowVisible(user_id) ==
  (AuthUid # Null /\ AuthUid = user_id) \/ user_id = Null

\* commands for which booking_events has a policy
BookingEventsPolicies == {"SELECT", "INSERT"}

\* with RLS enabled, a command without a policy reaches no row
EventRowsUpdatable == "UPDATE" \in BookingEventsPolicies

Event(type, loc) ==
  [event_type |-> type, location |-> loc, notes |-> Null, flight_id |-> Null]

\* trigger create_booking_event, AFTER INSERT
CreatedEvent(b) == Event("CREATED", b.origin)

\* variant: every status event is located at the origin
StatusEvents_AlwaysOrigin(old, new) ==
  IF old.status # new.status THEN << Event(new.status, new.origin) >> ELSE << >>

\* trigger create_booking_event, AFTER UPDATE: the events appended for old -> new
StatusEvents(old, new) ==
  IF old.status # new.status
  THEN << Event(new.status,
                CASE new.status = "DEPARTED"  -> new.origin
                  [] new.status = "ARRIVED"   -> new.destination
                  [] new.status = "DELIVERED" -> new.destination
                  [] OTHER -> Null) >>
  ELSE << >>

VARIABLES
  bookings,   \* bookings table: ref_id -> row
  events,     \* booking_events table: ref_id of the booking -> its events in the
              \* order of created_at, oldest first
  calls,      \* the update-booking-status requests: position, request, what was
              \* read, response, the store calls that failed, the number of
              \* events of the booking stored when it was read (seen), and
              \* (history) the place of the event its status update created, 0 if none
  accepted,   \* history: ref_id -> the statuses of the requests answered with success
  table,      \* the transition table the handler consults
  catalog,    \* flights table
  query,      \* the get-routes request being answered
  routes,     \* the routes of the get-routes response
  searchCode, \* HTTP status of the get-routes response, 0 before it
  failedQueries, \* the queries of that get-routes request the store failed to
              \* answer: "direct", "firstHop", and for a second-hop query the
              \* flight number of its first hop
  search,     \* the get-routes request under way: the await it is at, the routes
              \* pushed so far, the first hops whose second-hop query is to come
  refColumn,  \* the ref_id column of the bookings rows, in insertion order
  inserts     \* the inserts into bookings: outcome, ref_id, user_id of the row, and
              \* the response of create-booking when the handler made the insert

lifecycleVars == << bookings, events, calls, accepted, table, refColumn, inserts >>
routeVars == << catalog, query, routes, searchCode, failedQueries, search >>
vars == << bookings, events, calls, accepted, table, catalog, query, routes, searchCode,
          failedQueries, search, refColumn, inserts >>

Calls == 1 .. MaxCalls

Inserts == 1 .. MaxInserts

\* an insert that has not started
NewInsert == [pc |-> "new", ref_id |-> Null, user_id |-> Null, resp |-> NoResponse]

NewCall ==
  [pc |-> "new", ref_id |-> Null, status |-> Null, notes |-> Null, flight_id |-> Null,
   current |-> Null, latest |-> 0, latestNotes |-> Null, latestFlight |-> Null,
   resp |-> NoResponse, failedOps |-> {}, location |-> Null, ownEvent |-> 0, seen |-> 0]

\* the row create-booking inserts; user_id: user_id || null
NewBooking(origin, destination, user_id) ==
  [status |-> "BOOKED", origin |-> origin, destination |-> destination,
   user_id |-> IF Falsy(user_id) THEN Null ELSE user_id]

\* the status sequences a booking goes through when requests do not overlap:
\* the paths of validTransitions that start at BOOKED (the table has no cycle,
\* so a path visits each status at most once)
SettledPaths ==
  { p \in UNION { [1 .. n -> validStatuses] : n \in 0 .. Cardinality(validStatuses) - 1 } :
      \A i \in 1 .. Len(p) :
        p[i] \in validTransitions[IF i = 1 THEN "BOOKED" ELSE p[i - 1]] }

\* the events the triggers have written for a booking that went through path p
RECURSIVE SettledEvents(_, _)
SettledEvents(b, p) ==
  IF p = << >> THEN << CreatedEvent(b) >>
  ELSE LET q == SubSeq(p, 1, Len(p) - 1)
           old == [b EXCEPT !.status = IF q = << >> THEN "BOOKED" ELSE q[Len(q)]]
           new == [b EXCEPT !.status = p[Len(p)]]
       IN SettledEvents(b, q) \o StatusEvents(old, new)

\* the store before the requests of this execution arrive: empty, or holding a
\* booking (a row stored with its ref_id given, see InsertRow) that earlier,
\* completed requests took along a path of the table
InitStore(ref, b, p) ==
  /\ bookings = (ref :> [b EXCEPT !.status = IF p = << >> THEN "BOOKED" ELSE p[Len(p)]])
  /\ events = (ref :> SettledEvents(b, p))
  /\ accepted = (ref :> p)
  /\ refColumn = << ref >>

InitStores ==
  \/ bookings = << >> /\ events = << >> /\ accepted = << >> /\ refColumn = << >>
  \/ \E ref \in RefPool, o \in BookingOrigins, d \in BookingDestinations, p \in SettledPaths :
       InitStore(ref, NewBooking(o, d, Null), p)

\* no get-routes request has been made
NoQuery == [origin |-> Null, destination |-> Null, departure_date |-> Null]

\* no get-routes request is under way
SearchIdle == [pc |-> "idle", found |-> << >>, firsts |-> << >>]

RoutesIdle ==
  /\ catalog = {}
  /\ query = NoQuery
  /\ routes = << >>
  /\ searchCode = 0
  /\ failedQueries = {}
  /\ search = SearchIdle

Init ==
  /\ InitStores
  /\ calls = [c \in Calls |-> NewCall]
  /\ inserts = [t \in Inserts |-> NewInsert]
  /\ table = validTransitions
  /\ RoutesIdle

\* ----------------------------------------------------------- create-booking

MissingFieldsError == Response(400, "Missing required fields", Null, Null)
NotPositiveError == Response(400, "Pieces and weight must be positive numbers", Null, Null)
CreateFailedError == Response(500, "Failed to create booking", Null, Null)
CreatedResponse == Response(200, "Booking created successfully", Null, Null)

\* the request checks of create-booking: the error answered, NoResponse when the
\* insert is attempted
CreateRequestCheck(origin, destination, pieces, weight_kg) ==
  IF Falsy(origin) \/ Falsy(destination) \/ pieces = 0 \/ weight_kg = 0
  THEN MissingFieldsError
  ELSE IF pieces <= 0 \/ weight_kg <= 0
  THEN NotPositiveError
  ELSE NoResponse

\* the schema the migration creates generate_ref_id in (CREATE FUNCTION names none)
RefFunctionSchema == "public"

\* auto_generate_ref_id ... SET search_path = '': the schemas on its search path
TriggerSearchPath == {}

\* the schemas in which the trigger function looks up a name written without
\* schema: those of its search path, and pg_catalog, which is always searched
TriggerLookup == TriggerSearchPath \cup {"pg_catalog"}

\* trigger auto_generate_ref_id: the codes the loop can exit with. Its first
\* statement, NEW.ref_id := generate_ref_id(), names the function without schema:
\* when the lookup does not find it the statement raises and no code is drawn
FreshRefs ==
  IF RefFunctionSchema \in TriggerLookup
  THEN RefPoolWide \ { refColumn[i] : i \in DOMAIN refColumn }
  ELSE {}

\* variant: the ref_id column has no unique constraint
UniqueOk_NoConstraint(column, ref) == TRUE

\* ref_id TEXT NOT NULL UNIQUE: whether a row with this ref_id can be stored
UniqueOk(column, ref) == \A i \in 1 .. Len(column) : column[i] # ref

\* INSERT INTO bookings of row b by insert t, as one statement: the BEFORE INSERT
\* trigger auto_generate_ref_id (the row keeps a ref_id it came with, otherwise
\* the loop draws one), the WITH CHECK of the insert policy, the unique
\* constraint, and the AFTER INSERT trigger that adds the CREATED event. stored
\* and failed are the responses recorded for the two outcomes
InsertStatement(t, given, b, stored, failed) ==
  LET refs == IF Falsy(given) THEN FreshRefs ELSE {given}
      storable == { ref \in refs : BookingRowVisible(b.user_id) /\ UniqueOk(refColumn, ref) }
  IN IF storable = {}
     THEN /\ inserts' = [inserts EXCEPT ![t] = [pc |-> "failed", ref_id |-> given,
                                                user_id |-> b.user_id, resp |-> failed]]
          /\ UNCHANGED << bookings, events, accepted, refColumn >>
     ELSE \E ref \in storable :
            /\ refColumn' = Append(refColumn, ref)
            /\ bookings' = (ref :> b) @@ bookings
            /\ events' = (ref :> << CreatedEvent(b) >>) @@ events
            /\ accepted' = (ref :> << >>) @@ accepted
            /\ inserts' = [inserts EXCEPT ![t] = [pc |-> "stored", ref_id |-> ref,
                                                   user_id |-> b.user_id, resp |-> stored]]

\* the create-booking handler: the body checks, then the insert of a row without
\* ref_id and with status 'BOOKED'; bookingError answers 500
CreateBooking(t, origin, destination, pieces, weight_kg, user_id) ==
  /\ inserts[t].pc = "new"
  /\ \A u \in Inserts : u < t => inserts[u].pc # "new"   \* numbered as they arrive
  /\ LET bad == CreateRequestCheck(origin, destination, pieces, weight_kg)
     IN IF bad # NoResponse
        THEN /\ inserts' = [inserts EXCEPT ![t] = [pc |-> "rejected", ref_id |-> Null,
                                                   user_id |-> Null, resp |-> bad]]
             /\ UNCHANGED << bookings, events, accepted, refColumn >>
        ELSE InsertStatement(t, Null, NewBooking(origin, destination, user_id),
                             CreatedResponse, CreateFailedError)
  /\ UNCHANGED << calls, table, routeVars >>

\* a row that reaches the bookings table with its ref_id given (no handler of
\* the repository sends one): the trigger leaves the ref_id as it is
InsertRow(t, ref_id, user_id) ==
  /\ inserts[t].pc = "new"
  /\ \A u \in Inserts : u < t => inserts[u].pc # "new"
  /\ InsertStatement(t, ref_id, [NewBooking("DEL", "BOM", Null) EXCEPT !.user_id = user_id],
                     NoResponse, NoResponse)
  /\ UNCHANGED << calls, table, routeVars >>

\* request values of create-booking
CreateOrigins == {"DEL", ""}
PiecesInputs == {0 - 1, 0, 1}

NextInserts ==
  \/ \E t \in Inserts, o \in CreateOrigins, d \in BookingDestinations, p \in PiecesInputs,
        w \in {1}, u \in UserIdInputs :
       CreateBooking(t, o, d, p, w, u)
  \/ \E t \in Inserts, ref \in RefPoolWide, u \in {Null, "user-1"} : InsertRow(t, ref, u)

\* create-booking requests and inserts of rows that carry their ref_id
SpecInserts == Init /\ [][NextInserts]_vars

\* ----------------------------------------------- update-booking-status steps

\* a handler that writes the requested status as soon as the booking is read and
\* checks the transition afterwards
Receive_UpdateBeforeCheck(c, ref_id, status, notes, flight_id, location) ==
  /\ calls[c].pc = "new"
  /\ \A d \in Calls : d < c => calls[d].pc # "new"
  /\ LET req == [calls[c] EXCEPT !.ref_id = ref_id, !.status = status,
                                 !.notes = notes, !.flight_id = flight_id,
                                 !.location = location]
         bad == RequestCheck(ref_id, status)
         found == ref_id \in DOMAIN bookings /\ BookingRowVisible(bookings[ref_id].user_id)
     IN IF bad # NoResponse
        THEN /\ calls' = [calls EXCEPT ![c] = [req EXCEPT !.pc = "done", !.resp = bad]]
             /\ UNCHANGED << bookings, events >>
        ELSE IF ~found
        THEN /\ calls' = [calls EXCEPT ![c] = [req EXCEPT !.pc = "done", !.resp = NotFoundError]]
             /\ UNCHANGED << bookings, events >>
        ELSE LET old == bookings[ref_id]
                 new == [old EXCEPT !.status = status]
                 verdict == TransitionCheck(table, old.status, status)
             IN /\ bookings' = [bookings EXCEPT ![ref_id] = new]
                /\ events' = [events EXCEPT ![ref_id] = @ \o StatusEvents(old, new)]
                /\ IF verdict # NoResponse
                   THEN calls' = [calls EXCEPT ![c] =
                                    [req EXCEPT !.pc = "done", !.current = old.status,
                                                !.resp = verdict]]
                   ELSE calls' = [calls EXCEPT ![c] =
                                    [req EXCEPT !.pc = "update", !.current = old.status,
                                                !.seen = Len(events[ref_id])
                                                         + Len(StatusEvents(old, new))]]
  /\ UNCHANGED << accepted, table, routeVars, refColumn, inserts >>

\* request parsing, the body checks, the read of the booking (select ... single)
\* and the transition checks made on the row that was read
Receive(c, ref_id, status, notes, flight_id, location) ==
  /\ calls[c].pc = "new"
  /\ \A d \in Calls : d < c => calls[d].pc # "new"   \* requests are numbered as they arrive
  /\ LET req == [calls[c] EXCEPT !.ref_id = ref_id, !.status = status,
                                 !.notes = notes, !.flight_id = flight_id,
                                 !.location = location]
         bad == RequestCheck(ref_id, status)
         found == ref_id \in DOMAIN bookings /\ BookingRowVisible(bookings[ref_id].user_id)
     IN IF bad # NoResponse
        THEN calls' = [calls EXCEPT ![c] = [req EXCEPT !.pc = "done", !.resp = bad]]
        ELSE IF ~found
        THEN calls' = [calls EXCEPT ![c] = [req EXCEPT !.pc = "done", !.resp = NotFoundError]]
        ELSE LET cur == bookings[ref_id].status
                 verdict == TransitionCheck(table, cur, status)
             IN IF verdict # NoResponse
                THEN calls' = [calls EXCEPT ![c] =
                                 [req EXCEPT !.pc = "done", !.current = cur, !.resp = verdict]]
                ELSE calls' = [calls EXCEPT ![c] =
                                 [req EXCEPT !.pc = "update", !.current = cur,
                                             !.seen = Len(events[ref_id])]]
  /\ UNCHANGED << bookings, events, accepted, table, routeVars, refColumn, inserts >>

\* the success response
Answer(c) ==
  /\ calls' = [calls EXCEPT ![c].pc = "done", ![c].resp = UpdatedResponse]
  /\ accepted' = [accepted EXCEPT ![calls[c].ref_id] = Append(@, calls[c].status)]

\* booking_events.created_at defaults to now(), the time at which the inserting
\* transaction began. The transaction of request c's update begins after c read
\* the booking, so its event comes after every event stored by then; an update
\* that began earlier can be written later, so the event comes before or after
\* the events stored since: the places it can take in the order of created_at
EventPlaces(c) == (calls[c].seen + 1) .. (Len(events[calls[c].ref_id]) + 1)

\* es with e at place p
InsertAt(es, p, e) == SubSeq(es, 1, p - 1) \o << e >> \o SubSeq(es, p, Len(es))

\* place i once a row has been put at place p
Moved(i, p) == IF i >= p THEN i + 1 ELSE i

\* the requests' records once an event of booking r has been put at place p: the
\* places they hold (rows they read, the row they created) name the same rows
CallsAfterInsert(r, p) ==
  [d \in Calls |->
     IF calls[d].ref_id = r
     THEN [calls[d] EXCEPT !.seen = Moved(@, p), !.latest = Moved(@, p),
                           !.ownEvent = Moved(@, p)]
     ELSE calls[d]]

\* the store and the requests after request c's update wrote `written` (no event
\* or one) at place p; the handler then either answers or goes on to read the
\* latest event
Written(c, written, p) ==
  LET r == calls[c].ref_id
      moved == IF written = << >> THEN calls ELSE CallsAfterInsert(r, p)
      own == IF written = << >> THEN 0 ELSE p
  IN /\ bookings' = [bookings EXCEPT ![r].status = calls[c].status]
     /\ events' = [events EXCEPT ![r] =
                     IF written = << >> THEN @ ELSE InsertAt(@, p, written[1])]
     /\ IF ~Falsy(calls[c].notes) \/ ~Falsy(calls[c].flight_id)
        THEN /\ calls' = [moved EXCEPT ![c].pc = "select", ![c].ownEvent = own,
                                       ![c].seen = 0]
             /\ UNCHANGED accepted
        ELSE /\ calls' = [moved EXCEPT ![c].pc = "done", ![c].resp = UpdatedResponse,
                                       ![c].ownEvent = own, ![c].seen = 0]
             /\ accepted' = [accepted EXCEPT ![r] = Append(@, calls[c].status)]

\* variant: the event of the status change is located where the request says
UpdateStatus_ForwardsLocation(c) ==
  /\ calls[c].pc = "update"
  /\ LET r == calls[c].ref_id
         old == bookings[r]
         new == [old EXCEPT !.status = calls[c].status]
         written == StatusEvents(old, new)
     IN \E p \in EventPlaces(c) :
          /\ written = << >> => p = Len(events[r]) + 1
          /\ Written(c, [i \in 1 .. Len(written) |->
                           IF Falsy(calls[c].location) THEN written[i]
                           ELSE [written[i] EXCEPT !.location = calls[c].location]], p)
  /\ UNCHANGED << table, routeVars, refColumn, inserts >>

\* update({ status }).eq('ref_id', ref_id) with its AFTER UPDATE trigger
UpdateStatus(c) ==
  /\ calls[c].pc = "update"
  /\ LET r == calls[c].ref_id
         old == bookings[r]
         new == [old EXCEPT !.status = calls[c].status]
         written == StatusEvents(old, new)
     IN \E p \in EventPlaces(c) :
          /\ written = << >> => p = Len(events[r]) + 1
          /\ Written(c, written, p)
  /\ UNCHANGED << table, routeVars, refColumn, inserts >>

\* select from booking_events ... order by created_at desc limit 1
SelectLatestEvent(c) ==
  /\ calls[c].pc = "select"
  /\ LET r == calls[c].ref_id
         n == Len(events[r])
     IN IF n = 0
        THEN Answer(c)
        ELSE /\ calls' = [calls EXCEPT ![c].pc = "patch", ![c].latest = n,
                                       ![c].latestNotes = events[r][n].notes,
                                       ![c].latestFlight = events[r][n].flight_id]
             /\ UNCHANGED accepted
  /\ UNCHANGED << bookings, events, table, routeVars, refColumn, inserts >>

\* the row written by update({ notes: notes || latest.notes, flight_id: ... })
PatchedEvent(e, c) ==
  [e EXCEPT !.notes = IF Falsy(calls[c].notes) THEN calls[c].latestNotes ELSE calls[c].notes,
            !.flight_id = IF Falsy(calls[c].flight_id) THEN calls[c].latestFlight
                          ELSE calls[c].flight_id]

\* update of the latest event by id (its outcome is not looked at), then the answer
PatchLatestEvent(c) ==
  /\ calls[c].pc = "patch"
  /\ LET r == calls[c].ref_id
         i == calls[c].latest
     IN events' = IF EventRowsUpdatable
                  THEN [events EXCEPT ![r][i] = PatchedEvent(@, c)]
                  ELSE events
  /\ Answer(c)
  /\ UNCHANGED << bookings, table, routeVars, refColumn, inserts >>

\* the read of the booking fails in the store: the client resolves to
\* { data: null, error } and `fetchError || !currentBooking` answers 404
ReceiveStoreDown(c, ref_id, status, notes, flight_id, location) ==
  /\ calls[c].pc = "new"
  /\ \A d \in Calls : d < c => calls[d].pc # "new"
  /\ RequestCheck(ref_id, status) = NoResponse
  /\ calls' = [calls EXCEPT ![c] =
                 [@ EXCEPT !.ref_id = ref_id, !.status = status, !.notes = notes,
                           !.flight_id = flight_id, !.location = location,
                           !.pc = "done",
                           !.resp = NotFoundError, !.failedOps = {"read"}]]
  /\ UNCHANGED << bookings, events, accepted, table, routeVars, refColumn, inserts >>

\* the update of the booking fails in the store: updateError answers 500
UpdateStatusStoreDown(c) ==
  /\ calls[c].pc = "update"
  /\ calls' = [calls EXCEPT ![c].pc = "done", ![c].resp = UpdateFailedError,
                            ![c].failedOps = @ \cup {"update"}, ![c].seen = 0]
  /\ UNCHANGED << bookings, events, accepted, table, routeVars, refColumn, inserts >>

\* the read of the latest event fails in the store: latestEvent is null, the
\* patch is skipped and the handler answers success
SelectLatestEventStoreDown(c) ==
  /\ calls[c].pc = "select"
  /\ calls' = [calls EXCEPT ![c].pc = "done", ![c].resp = UpdatedResponse,
                            ![c].failedOps = @ \cup {"select"}]
  /\ accepted' = [accepted EXCEPT ![calls[c].ref_id] = Append(@, calls[c].status)]
  /\ UNCHANGED << bookings, events, table, routeVars, refColumn, inserts >>

\* the update of the latest event fails in the store: its result is not looked
\* at and the handler answers success
PatchLatestEventStoreDown(c) ==
  /\ calls[c].pc = "patch"
  /\ calls' = [calls EXCEPT ![c].pc = "done", ![c].resp = UpdatedResponse,
                            ![c].failedOps = @ \cup {"patch"}]
  /\ accepted' = [accepted EXCEPT ![calls[c].ref_id] = Append(@, calls[c].status)]
  /\ UNCHANGED << bookings, events, table, routeVars, refColumn, inserts >>

\* requests without notes or flight reference: every ref_id and status value
Next ==
  \/ \E c \in Calls, r \in RefInputs, s \in StatusInputs, l \in LocationInputs :
       Receive(c, r, s, Null, Null, l)
  \/ \E c \in Calls : UpdateStatus(c)

Spec == Init /\ [][Next]_vars

\* requests with notes and flight reference, for the bookings of the store
NextNotes ==
  \/ \E c \in Calls, r \in RefPool, s \in validStatuses, n \in NotesInputs,
        f \in FlightIdInputs :
       Receive(c, r, s, n, f, Null)
  \/ \E c \in Calls : UpdateStatus(c)
  \/ \E c \in Calls : SelectLatestEvent(c)
  \/ \E c \in Calls : PatchLatestEvent(c)

SpecNotes == Init /\ [][NextNotes]_vars

\* the notes and flight reference a request carries: neither, or both
Annotations == {<< Null, Null >>, << "held at customs", "AI101" >>}

\* requests of every kind, well-formed or not, for known and unknown references,
\* each bare or annotated
NextRejected ==
  \/ \E c \in Calls, r \in RefInputs, s \in StatusInputs, a \in Annotations :
       Receive(c, r, s, a[1], a[2], Null)
  \/ \E c \in Calls : UpdateStatus(c)
  \/ \E c \in Calls : SelectLatestEvent(c)
  \/ \E c \in Calls : PatchLatestEvent(c)

SpecRejected == Init /\ [][NextRejected]_vars

\* no request is between its read of the booking and its answer
NoneUnderWay == \A d \in Calls : calls[d].pc \in {"new", "done"}

\* requests that do not overlap: one is received only when none is under way
NextSequential ==
  \/ \E c \in Calls, r \in RefInputs, s \in StatusInputs, l \in LocationInputs :
       NoneUnderWay /\ Receive(c, r, s, Null, Null, l)
  \/ \E c \in Calls : UpdateStatus(c)

SpecSequential == Init /\ [][NextSequential]_vars

\* requests for the bookings of the store, with store calls that can fail
NextStoreDown ==
  \/ \E c \in Calls, r \in RefPool, s \in validStatuses, n \in NotesInputs :
       Receive(c, r, s, n, Null, Null)
  \/ \E c \in Calls, r \in RefPool, s \in validStatuses, n \in NotesInputs :
       ReceiveStoreDown(c, r, s, n, Null, Null)
  \/ \E c \in Calls : UpdateStatus(c)
  \/ \E c \in Calls : UpdateStatusStoreDown(c)
  \/ \E c \in Calls : SelectLatestEvent(c)
  \/ \E c \in Calls : SelectLatestEventStoreDown(c)
  \/ \E c \in Calls : PatchLatestEvent(c)
  \/ \E c \in Calls : PatchLatestEventStoreDown(c)

SpecStoreDown == Init /\ [][NextStoreDown]_vars

\* the transition table with CANCELLED added to the lists of ARRIVED and / or
\* DELIVERED (and the table as it is)
EditedTables ==
  { [s \in validStatuses |-> IF s \in X THEN validTransitions[s] \cup {"CANCELLED"}
                                         ELSE validTransitions[s]] :
      X \in SUBSET {"ARRIVED", "DELIVERED"} }

InitEdited ==
  /\ InitStores
  /\ calls = [c \in Calls |-> NewCall]
  /\ inserts = [t \in Inserts |-> NewInsert]
  /\ table \in EditedTables
  /\ RoutesIdle

\* the handler run against an edited transition table
SpecEdited == InitEdited /\ [][Next]_vars

\* ---------------------------------------------------------------- get-routes

\* 1000 * 60, 1000 * 60 * 60, and the length of the day setDate(getDate() + 1) adds
MsPerMinute == 60000
MsPerHour == 3600000
MsPerDay == 86400000

\* layoverHours >= 2
MinLayoverHours == 2

\* .limit(3)
SecondHopLimit == 3

\* departureEnd.setDate(departureEnd.getDate() + 1), nextDayEnd.setDate(... + 2)
DepartureWindowDays == 1
TransitWindowDays == 2

\* an instant as milliseconds since 2024-08-16T00:00:00Z: h hours and m minutes
At(h, m) == h * MsPerHour + m * MsPerMinute

Flight(id, origin, destination, dep, arr) ==
  [id |-> id, origin |-> origin, destination |-> destination,
   departure_datetime |-> dep, arrival_datetime |-> arr]

\* rows the flights table can hold: flights of the migration's sample data and
\* flights at the edges of the windows and of the layover rule
FlightPool ==
  { Flight("AI101", "DEL", "BOM", At(6, 0), At(8, 30)),
    Flight("AI401", "BOM", "BLR", At(10, 0), At(11, 45)),
    Flight("6E502", "BOM", "BLR", At(13, 30), At(15, 15)),
    Flight("SG603", "BOM", "BLR", At(18, 45), At(20, 30)),
    Flight("AI701", "DEL", "BLR", At(7, 30), At(10, 15)),
    Flight("6E202", "DEL", "BOM", At(9, 15), At(11, 45)),
    Flight("QX0900", "BOM", "BLR", At(9, 0), At(10, 45)),
    Flight("QX1029", "BOM", "BLR", At(10, 30) - 1, At(12, 15)),
    Flight("QX1030", "BOM", "BLR", At(10, 30), At(12, 15)),
    Flight("QX1045", "BOM", "BLR", At(10, 45), At(12, 30)),
    Flight("QX1330", "BOM", "BLR", At(13, 30), At(15, 0)),
    Flight("QX5630", "BOM", "BLR", At(56, 30), At(58, 15)),
    Flight("QX2400", "DEL", "BLR", At(24, 0), At(26, 45)),
    Flight("QX0000", "DEL", "BLR", At(0, 0), At(2, 45)) }

Catalogs == { c \in SUBSET FlightPool : Cardinality(c) <= MaxFlights }

\* request values of get-routes
OriginInputs == {"DEL", Null}
DestinationInputs == {"BLR", "BOM", Null}
DateInputs == {"2024-08-16", "2024-08-15", "someday", Null}

\* new Date(departure_date): whether the result is a valid date, and its time value
ValidDate(d) == d \in {"2024-08-16", "2024-08-15"}
DateMs(d) == IF d = "2024-08-16" THEN 0 ELSE 0 - MsPerDay

\* JS %: the remainder has the sign of the dividend
JsRem(a, b) == IF a >= 0 THEN a % b ELSE 0 - ((0 - a) % b)

\* calculateDuration: the text `${hours}h ${minutes}m`, kept as its two numbers
calculateDuration(start, end) ==
  LET diffMs == end - start
  IN [hours |-> diffMs \div MsPerHour,
      minutes |-> JsRem(diffMs, MsPerHour) \div MsPerMinute]

\* parseDuration: /(\d+)h\s*(\d+)m/ finds the digits before 'h' (a sign is not
\* part of the match) and needs digits right after the blank; no match gives 0
parseDuration(duration) ==
  IF duration.minutes < 0 THEN 0
  ELSE (IF duration.hours < 0 THEN 0 - duration.hours ELSE duration.hours) * 60
       + duration.minutes

\* variant: the end of the window is included
DepartsWithin_ClosedEnd(f, start, end) ==
  f.departure_datetime >= start /\ f.departure_datetime <= end

\* .gte('departure_datetime', start).lt('departure_datetime', end)
DepartsWithin(f, start, end) ==
  f.departure_datetime >= start /\ f.departure_datetime < end

\* the rows of the direct-flight query
DirectFlights(origin, destination, start) ==
  { f \in catalog : /\ f.origin = origin /\ f.destination = destination
                    /\ DepartsWithin(f, start, start + DepartureWindowDays * MsPerDay) }

\* the rows of the first-hop query
FirstHopFlights(origin, destination, start) ==
  { f \in catalog : /\ f.origin = origin /\ f.destination # destination
                    /\ DepartsWithin(f, start, start + DepartureWindowDays * MsPerDay) }

\* variant: the second-hop query without .eq('origin', firstFlight.destination)
SecondHopFlights_AnyOrigin(first, destination) ==
  { g \in catalog : /\ g.destination = destination
                    /\ DepartsWithin(g, first.arrival_datetime,
                                     first.arrival_datetime + TransitWindowDays * MsPerDay) }

\* the rows matched by the second-hop query for one first hop, before the limit
SecondHopFlights(first, destination) ==
  { g \in catalog : /\ g.origin = first.destination /\ g.destination = destination
                    /\ DepartsWithin(g, first.arrival_datetime,
                                     first.arrival_datetime + TransitWindowDays * MsPerDay) }

\* .order('departure_datetime'): the orders the store can return the rows in (rows
\* with equal departure come in any order)
RECURSIVE Ordered(_)
Ordered(S) ==
  IF S = {} THEN { << >> }
  ELSE LET earliest == { f \in S : \A g \in S : f.departure_datetime <= g.departure_datetime }
       IN UNION { { << f >> \o rest : rest \in Ordered(S \ {f}) } : f \in earliest }

\* variant: the limit is 4
Limited_FourRows(rows) ==
  SubSeq(rows, 1, IF Len(rows) < 4 THEN Len(rows) ELSE 4)

\* variant: the limit is 2
Limited_TwoRows(rows) ==
  SubSeq(rows, 1, IF Len(rows) < 2 THEN Len(rows) ELSE 2)

\* .limit(3)
Limited(rows) ==
  SubSeq(rows, 1, IF Len(rows) < SecondHopLimit THEN Len(rows) ELSE SecondHopLimit)

\* variant: any connection that departs after the arrival passes
LayoverOk_AnyConnection(first, second) ==
  second.departure_datetime - first.arrival_datetime >= 0

\* layoverHours >= 2, layoverHours being the difference in ms / (1000 * 60 * 60)
LayoverOk(first, second) ==
  second.departure_datetime - first.arrival_datetime >= MinLayoverHours * MsPerHour

DirectRoute(flight) ==
  [type |-> "direct", flights |-> << flight >>,
   total_duration |-> calculateDuration(flight.departure_datetime, flight.arrival_datetime)]

TransitRoute(first, second) ==
  [type |-> "transit", flights |-> << first, second >>,
   total_duration |-> calculateDuration(first.departure_datetime, second.arrival_datetime)]

\* directFlights.forEach(... routes.push ...)
DirectRoutes(rows) == [i \in 1 .. Len(rows) |-> DirectRoute(rows[i])]

\* secondHopFlights.forEach(...) for one first hop
RECURSIVE TransitRoutesOf(_, _)
TransitRoutesOf(first, rows) ==
  IF rows = << >> THEN << >>
  ELSE (IF LayoverOk(first, Head(rows)) THEN << TransitRoute(first, Head(rows)) >> ELSE << >>)
       \o TransitRoutesOf(first, Tail(rows))

\* r placed after the routes that do not compare greater (the sort is stable)
RECURSIVE InsertRoute(_, _)
InsertRoute(sorted, r) ==
  IF sorted = << >> THEN << r >>
  ELSE LET last == sorted[Len(sorted)]
       IN IF parseDuration(last.total_duration) - parseDuration(r.total_duration) <= 0
          THEN Append(sorted, r)
          ELSE Append(InsertRoute(SubSeq(sorted, 1, Len(sorted) - 1), r), last)

\* routes.sort((a, b) => parseDuration(a.total_duration) - parseDuration(b.total_duration))
RECURSIVE SortRoutes(_)
SortRoutes(rs) ==
  IF rs = << >> THEN << >>
  ELSE InsertRoute(SortRoutes(SubSeq(rs, 1, Len(rs) - 1)), rs[Len(rs)])

\* the handler up to its first await: the body check, the dates, the direct
\* query being built (toISOString throws RangeError on an invalid date, and the
\* catch answers 500)
StartSearch(origin, destination, departure_date) ==
  /\ search.pc = "idle"
  /\ query' = [origin |-> origin, destination |-> destination,
               departure_date |-> departure_date]
  /\ routes' = << >>
  /\ failedQueries' = {}
  /\ IF Falsy(origin) \/ Falsy(destination) \/ Falsy(departure_date)
     THEN searchCode' = 400 /\ search' = SearchIdle
     ELSE IF ~ValidDate(departure_date)
     THEN searchCode' = 500 /\ search' = SearchIdle
     ELSE searchCode' = 0 /\ search' = [SearchIdle EXCEPT !.pc = "direct"]
  /\ UNCHANGED << catalog, lifecycleVars >>

\* routes.sort(...) and the response, once the last query has been answered
Respond(found) ==
  /\ routes' = SortRoutes(found)
  /\ searchCode' = 200
  /\ search' = SearchIdle

\* the answer to the direct query and the routes pushed for it; when the store
\* fails (down) the client resolves to { data: null, error } and the handler,
\* which destructures only data, skips the block
DirectQuery(down) ==
  /\ search.pc = "direct"
  /\ \E direct \in Ordered(IF down THEN {}
                           ELSE DirectFlights(query.origin, query.destination,
                                              DateMs(query.departure_date))) :
       search' = [search EXCEPT !.pc = "firstHop", !.found = DirectRoutes(direct)]
  /\ failedQueries' = IF down THEN failedQueries \cup {"direct"} ELSE failedQueries
  /\ UNCHANGED << catalog, query, routes, searchCode, lifecycleVars >>

\* the answer to the first-hop query; without first hops the handler sorts and
\* responds
FirstHopQuery(down) ==
  /\ search.pc = "firstHop"
  /\ \E firsts \in Ordered(IF down THEN {}
                           ELSE FirstHopFlights(query.origin, query.destination,
                                                DateMs(query.departure_date))) :
       IF firsts = << >>
       THEN Respond(search.found)
       ELSE /\ search' = [search EXCEPT !.pc = "secondHop", !.firsts = firsts]
            /\ UNCHANGED << routes, searchCode >>
  /\ failedQueries' = IF down THEN failedQueries \cup {"firstHop"} ELSE failedQueries
  /\ UNCHANGED << catalog, query, lifecycleVars >>

\* one turn of the loop over the first hops: the answer to the second-hop query
\* of the next first hop and the routes pushed for it; after the last first hop
\* the handler sorts and responds
SecondHopQuery(down) ==
  /\ search.pc = "secondHop"
  /\ LET first == Head(search.firsts)
     IN \E rows \in { Limited(o) :
                      o \in Ordered(IF down THEN {}
                                    ELSE SecondHopFlights(first, query.destination)) } :
          LET found == search.found \o TransitRoutesOf(first, rows)
          IN IF Tail(search.firsts) = << >>
             THEN Respond(found)
             ELSE /\ search' = [search EXCEPT !.found = found, !.firsts = Tail(@)]
                  /\ UNCHANGED << routes, searchCode >>
  /\ failedQueries' = IF down THEN failedQueries \cup {Head(search.firsts).id}
                      ELSE failedQueries
  /\ UNCHANGED << catalog, query, lifecycleVars >>

InitRoutes ==
  /\ bookings = << >> /\ events = << >> /\ accepted = << >> /\ refColumn = << >>
  /\ calls = [c \in Calls |-> NewCall]
  /\ inserts = [t \in Inserts |-> NewInsert]
  /\ table = validTransitions
  /\ catalog \in Catalogs
  /\ query = NoQuery
  /\ routes = << >>
  /\ searchCode = 0
  /\ failedQueries = {}
  /\ search = SearchIdle

\* get-routes requests, one after the other, the store answering every query
NextRoutes ==
  \/ \E o \in OriginInputs, d \in DestinationInputs, t \in DateInputs : StartSearch(o, d, t)
  \/ DirectQuery(FALSE)
  \/ FirstHopQuery(FALSE)
  \/ SecondHopQuery(FALSE)

SpecRoutes == InitRoutes /\ [][NextRoutes]_vars

\* the sample flights of the migration
SamplePool ==
  { Flight("AI101", "DEL", "BOM", At(6, 0), At(8, 30)),
    Flight("6E202", "DEL", "BOM", At(9, 15), At(11, 45)),
    Flight("SG303", "DEL", "BOM", At(14, 30), At(17, 0)),
    Flight("AI401", "BOM", "BLR", At(10, 0), At(11, 45)),
    Flight("6E502", "BOM", "BLR", At(13, 30), At(15, 15)),
    Flight("SG603", "BOM", "BLR", At(18, 45), At(20, 30)),
    Flight("AI701", "DEL", "BLR", At(7, 30), At(10, 15)),
    Flight("6E802", "DEL", "BLR", At(16, 0), At(18, 45)),
    Flight("AI901", "DEL", "HYD", At(8, 0), At(10, 30)),
    Flight("6E902", "HYD", "BLR", At(12, 0), At(15, 0)) }

InitOutage ==
  /\ bookings = << >> /\ events = << >> /\ accepted = << >> /\ refColumn = << >>
  /\ calls = [c \in Calls |-> NewCall]
  /\ inserts = [t \in Inserts |-> NewInsert]
  /\ table = validTransitions
  /\ catalog \in SUBSET SamplePool
  /\ query = NoQuery
  /\ routes = << >>
  /\ searchCode = 0
  /\ failedQueries = {}
  /\ search = SearchIdle

\* get-routes requests, each query answered by the store or failed by it
NextOutage ==
  \/ \E o \in OriginInputs, d \in DestinationInputs, t \in DateInputs : StartSearch(o, d, t)
  \/ \E down \in BOOLEAN : DirectQuery(down)
  \/ \E down \in BOOLEAN : FirstHopQuery(down)
  \/ \E down \in BOOLEAN : SecondHopQuery(down)

\* get-routes with the store failing on some of the queries
SpecOutage == InitOutage /\ [][NextOutage]_vars

\* rows the flights table accepts besides the ones above: the table has no
\* constraint between departure_datetime and arrival_datetime, so a row can
\* arrive before it departs, or less than a minute after
DurationPool ==
  { Flight("AI101", "DEL", "BOM", At(6, 0), At(8, 30)),
    Flight("AI401", "BOM", "BLR", At(10, 0), At(11, 45)),
    Flight("AI701", "DEL", "BLR", At(7, 30), At(10, 15)),
    Flight("QD0900", "DEL", "BLR", At(9, 0), At(10, 0)),
    Flight("QD1200", "DEL", "BLR", At(12, 0), At(9, 0)),
    Flight("QD1201", "DEL", "BLR", At(12, 1), At(8, 31)),
    Flight("QD1400", "DEL", "BLR", At(14, 0), At(14, 0) + 30000),
    Flight("QD1500", "DEL", "BLR", At(15, 0), At(20, 45)) }

DurationCatalogs == { c \in SUBSET DurationPool : Cardinality(c) <= MaxFlights }

InitDurations ==
  /\ bookings = << >> /\ events = << >> /\ accepted = << >> /\ refColumn = << >>
  /\ calls = [c \in Calls |-> NewCall]
  /\ inserts = [t \in Inserts |-> NewInsert]
  /\ table = validTransitions
  /\ catalog \in DurationCatalogs
  /\ query = NoQuery
  /\ routes = << >>
  /\ searchCode = 0
  /\ failedQueries = {}
  /\ search = SearchIdle

\* get-routes over catalogs with flights of any duration
SpecDurations == InitDurations /\ [][NextRoutes]_vars

\* ------------------------------------------------------------------ claims

\* the transition table as the specification gives it
ListedEdges ==
  { << "BOOKED", "DEPARTED" >>, << "BOOKED", "CANCELLED" >>,
    << "DEPARTED", "ARRIVED" >>, << "ARRIVED", "DELIVERED" >> }

FiveStatuses == {"BOOKED", "DEPARTED", "ARRIVED", "DELIVERED", "CANCELLED"}

\* request c is received in this step
Received(c) == calls[c].pc = "new" /\ calls'[c].pc # "new"

\* request c makes its status update in this step
Wrote(c) == calls[c].pc = "update" /\ calls'[c].pc # "update"

\* request c has been answered with success
Succeeded(c) == calls[c].pc = "done" /\ calls[c].resp.code = 200

\* request c has written the booking and not answered yet
InFlight(c) == calls[c].pc \in {"update", "select", "patch"}

StoreUnchanged == bookings' = bookings /\ events' = events

\* C1: for an existing booking and a well-formed request, the request is accepted
\* exactly when (current status, requested status) is BOOKED->DEPARTED,
\* BOOKED->CANCELLED, DEPARTED->ARRIVED or ARRIVED->DELIVERED; an accepted request
\* persists the requested status, any other is answered 'Cannot change status
\* from {current} to {requested}'.
C1_AcceptedIffListed ==
  [][\A c \in Calls :
       /\ (Received(c) /\ calls'[c].ref_id \in DOMAIN bookings
                       /\ calls'[c].status \in FiveStatuses) =>
            LET cur == bookings[calls'[c].ref_id].status
                req == calls'[c].status
            IN /\ (calls'[c].pc = "update") <=> (<< cur, req >> \in ListedEdges)
               /\ (<< cur, req >> \notin ListedEdges) =>
                    /\ calls'[c].pc = "done"
                    /\ calls'[c].resp = CannotChangeError(cur, req)
                    /\ StoreUnchanged
       /\ Wrote(c) =>
            /\ bookings'[calls[c].ref_id].status = calls[c].status
            /\ calls'[c].pc = "done" => calls'[c].resp = UpdatedResponse
    ]_vars

\* C1 witness: one request accepted and persisted, another answered 'Cannot change'
C1_Witness ==
  \E c, d \in Calls :
    /\ Succeeded(c) /\ bookings[calls[c].ref_id].status = calls[c].status
    /\ calls[d].pc = "done" /\ calls[d].current # Null
    /\ calls[d].resp = CannotChangeError(calls[d].current, calls[d].status)

\* C2: two requests for the same booking that both read the same current status
\* are never both accepted.
C2_NoDoubleAccept ==
  \A c, d \in Calls :
    (c # d /\ Succeeded(c) /\ Succeeded(d) /\ calls[c].ref_id = calls[d].ref_id)
      => calls[c].current # calls[d].current

\* C3: every change of a booking's persisted status is an edge of the transition
\* table, so a DELIVERED or CANCELLED booking never changes status again.
C3_EveryChangeListed ==
  [][\A r \in DOMAIN bookings :
       bookings'[r].status # bookings[r].status
         => << bookings[r].status, bookings'[r].status >> \in ListedEdges
    ]_vars

\* C4: a request for any of the five statuses on a booking whose status S is
\* DELIVERED or CANCELLED is answered with the invalid-transition error and
\* leaves the status S.
C4_TerminalRejects ==
  [][\A c \in Calls :
       (Received(c) /\ calls'[c].ref_id \in DOMAIN bookings
                   /\ calls'[c].status \in FiveStatuses
                   /\ bookings[calls'[c].ref_id].status \in {"DELIVERED", "CANCELLED"}) =>
         /\ calls'[c].pc = "done"
         /\ calls'[c].resp = CannotChangeError(bookings[calls'[c].ref_id].status,
                                                calls'[c].status)
         /\ StoreUnchanged
    ]_vars

\* C4 witness: a request on a DELIVERED booking was rejected and the booking is still DELIVERED
C4_Witness ==
  \E c \in Calls :
    /\ calls[c].pc = "done" /\ calls[c].resp.code = 400
    /\ calls[c].current = "DELIVERED"
    /\ bookings[calls[c].ref_id].status = "DELIVERED"

\* C5: the request that was just accepted, issued again with no other request in
\* between, is answered with the invalid-transition error and changes nothing.
C5_RepeatRejected ==
  [][\A c, d \in Calls :
       (/\ c # d /\ Succeeded(c) /\ Received(d)
        /\ calls'[d].ref_id = calls[c].ref_id /\ calls'[d].status = calls[c].status
        /\ calls'[d].notes = calls[c].notes /\ calls'[d].flight_id = calls[c].flight_id
        /\ bookings[calls[c].ref_id].status = calls[c].status
        /\ \A e \in Calls : ~InFlight(e)) =>
         /\ calls'[d].pc = "done"
         /\ calls'[d].resp = CannotChangeError(calls[c].status, calls[c].status)
         /\ StoreUnchanged
    ]_vars

\* C5 witness: DEPARTED accepted once and rejected when repeated
C5_Witness ==
  \E c, d \in Calls :
    /\ c # d /\ Succeeded(c) /\ calls[c].status = "DEPARTED"
    /\ calls[d].pc = "done" /\ calls[d].ref_id = calls[c].ref_id
    /\ calls[d].resp = CannotChangeError("DEPARTED", "DEPARTED")

\* C6: a request for CANCELLED on an ARRIVED or DELIVERED booking is rejected,
\* also when the transition table lists CANCELLED for these statuses.
C6_CancelAfterArrivalRejected ==
  [][\A c \in Calls :
       (Received(c) /\ calls'[c].ref_id \in DOMAIN bookings
                   /\ calls'[c].status = "CANCELLED"
                   /\ bookings[calls'[c].ref_id].status \in {"ARRIVED", "DELIVERED"}) =>
         /\ calls'[c].pc = "done"
         /\ calls'[c].resp.code = 400
         /\ StoreUnchanged
    ]_vars

\* C6 witness: the table lists ARRIVED -> CANCELLED and the request was rejected
C6_Witness ==
  \E c \in Calls :
    /\ "CANCELLED" \in table["ARRIVED"]
    /\ calls[c].pc = "done" /\ calls[c].current = "ARRIVED"
    /\ calls[c].status = "CANCELLED" /\ calls[c].resp.code = 400

\* the number of events of booking r with kind k
EventCount(r, k) == Cardinality({ i \in 1 .. Len(events[r]) : events[r][i].event_type = k })

\* the number of requests for status k on booking r answered with success
AcceptedCount(r, k) == Cardinality({ i \in 1 .. Len(accepted[r]) : accepted[r][i] = k })

\* C7: the timeline of a booking is one CREATED event plus one event per request
\* answered with success, of the requested kind (requests may overlap).
C7_OneEventPerSuccess ==
  \A r \in DOMAIN bookings :
    (\A c \in Calls : calls[c].ref_id = r => calls[c].pc \notin {"select", "patch"}) =>
      /\ EventCount(r, "CREATED") = 1
      /\ \A k \in FiveStatuses : EventCount(r, k) = AcceptedCount(r, k)

\* C8: a request answered with success has its notes and flight reference
\* recorded on an event of the booking.
C8_SuccessRecordsPatch ==
  \A c \in Calls :
    Succeeded(c) =>
      \E i \in 1 .. Len(events[calls[c].ref_id]) :
        LET e == events[calls[c].ref_id][i]
        IN /\ ~Falsy(calls[c].notes) => e.notes = calls[c].notes
           /\ ~Falsy(calls[c].flight_id) => e.flight_id = calls[c].flight_id

\* F is a first hop of the answered query and G a connection for it with a
\* layover of at least two hours, departing less than two days after F arrives
TransitCase(F, G) ==
  /\ searchCode = 200
  /\ F.origin = query.origin /\ F.destination # query.destination
  /\ F.departure_datetime >= DateMs(query.departure_date)
  /\ F.departure_datetime < DateMs(query.departure_date) + 86400000
  /\ G.origin = F.destination /\ G.destination = query.destination
  /\ G.departure_datetime >= F.arrival_datetime
  /\ G.departure_datetime < F.arrival_datetime + 2 * 86400000
  /\ G.departure_datetime - F.arrival_datetime >= 2 * 3600000

\* the response has the transit combination [F, G]
HasTransit(F, G) ==
  \E i \in 1 .. Len(routes) : routes[i].type = "transit" /\ routes[i].flights = << F, G >>

\* the other flights from F's destination to the query's destination that depart
\* between F's arrival and G's departure
EarlierConnections(F, G) ==
  { H \in catalog \ {G} :
      /\ H.origin = F.destination /\ H.destination = query.destination
      /\ H.departure_datetime >= F.arrival_datetime
      /\ H.departure_datetime <= G.departure_datetime }

\* C9 as stated: every first hop F and connection G with a layover of at least
\* two hours inside the windows appear as the transit combination [F, G].
C9_EveryTransitListed ==
  \A F \in catalog, G \in catalog : TransitCase(F, G) => HasTransit(F, G)

\* C9, amended: the combination [F, G] appears when fewer than 3 other flights
\* from F's destination to the query's destination depart between F's arrival
\* and G's departure.
C9_EarliestTransitsListed ==
  \A F \in catalog, G \in catalog :
    (TransitCase(F, G) /\ Cardinality(EarlierConnections(F, G)) < 3) => HasTransit(F, G)

\* C9 witness: a first hop with four connections, the third of them listed
C9_Witness ==
  \E F \in catalog, G \in catalog :
    /\ TransitCase(F, G) /\ Cardinality(EarlierConnections(F, G)) = 2
    /\ HasTransit(F, G)
    /\ \E H \in catalog : H.departure_datetime > G.departure_datetime /\ TransitCase(F, H)

\* C10: every transit option of the response has a layover of at least two hours.
C10_LayoverAtLeastTwoHours ==
  \A i \in 1 .. Len(routes) :
    routes[i].type = "transit" =>
      routes[i].flights[2].departure_datetime - routes[i].flights[1].arrival_datetime
        >= 2 * 3600000

\* C10 witness: DEL->BOM arriving 08:30 with BOM->BLR at 09:00 and at 10:45 in
\* the catalog; the response has the 10:45 connection (6h 30m) and not the 09:00 one
C10_Witness ==
  \E F \in catalog, G \in catalog, H \in catalog :
    /\ F.arrival_datetime = At(8, 30)
    /\ G.departure_datetime = At(10, 45) /\ H.departure_datetime = At(9, 0)
    /\ H.origin = F.destination /\ H.destination = query.destination
    /\ searchCode = 200
    /\ ~HasTransit(F, H)
    /\ \E i \in 1 .. Len(routes) :
         /\ routes[i].type = "transit" /\ routes[i].flights = << F, G >>
         /\ routes[i].total_duration = [hours |-> 6, minutes |-> 30]

\* the number of minutes a total_duration text `${hours}h ${minutes}m` stands for
DurationValue(d) == d.hours * 60 + d.minutes

\* C11: the response is sorted non-decreasing by total_duration, and options of
\* equal total_duration keep the encounter order: a direct option comes before
\* a transit option, and direct options stay in ascending departure order.
C11_SortedStable ==
  \A i, j \in 1 .. Len(routes) :
    i < j =>
      /\ DurationValue(routes[i].total_duration) <= DurationValue(routes[j].total_duration)
      /\ (DurationValue(routes[i].total_duration) = DurationValue(routes[j].total_duration)) =>
           /\ ~(routes[i].type = "transit" /\ routes[j].type = "direct")
           /\ (routes[i].type = "direct" /\ routes[j].type = "direct") =>
                routes[i].flights[1].departure_datetime
                  <= routes[j].flights[1].departure_datetime

\* C12: every option of the response is well formed: a direct option has one
\* flight from the query's origin to the query's destination; a transit option
\* has two flights [first, second], first from the query's origin, second to the
\* query's destination, and second leaving from where first lands.
C12_RoutesWellFormed ==
  \A i \in 1 .. Len(routes) :
    LET r == routes[i]
    IN /\ r.type \in {"direct", "transit"}
       /\ r.type = "direct" =>
            /\ Len(r.flights) = 1
            /\ r.flights[1].origin = query.origin
            /\ r.flights[1].destination = query.destination
       /\ r.type = "transit" =>
            /\ Len(r.flights) = 2
            /\ r.flights[1].origin = query.origin
            /\ r.flights[1].destination = r.flights[2].origin
            /\ r.flights[2].destination = query.destination

\* C12 witness: a response with a direct option and a transit option, from a
\* catalog that also has (a) a flight to the query's destination from an airport
\* other than the query's origin, which is no direct option, and (b) a flight
\* to the query's destination that leaves an airport other than the one the
\* first flight lands at, two hours or more after it lands, which is not the
\* second flight of an option with that first flight
C12_Witness ==
  /\ searchCode = 200
  /\ \E i, j \in 1 .. Len(routes) : routes[i].type = "direct" /\ routes[j].type = "transit"
  /\ \E h \in catalog :
       /\ h.destination = query.destination /\ h.origin # query.origin
       /\ \A i \in 1 .. Len(routes) : routes[i].flights # << h >>
  /\ \E i \in 1 .. Len(routes), g \in catalog :
       /\ routes[i].type = "transit"
       /\ g.destination = query.destination /\ g.origin # routes[i].flights[1].destination
       /\ g.departure_datetime >= routes[i].flights[1].arrival_datetime + 2 * 3600000
       /\ \A j \in 1 .. Len(routes) : routes[j].flights # << routes[i].flights[1], g >>

\* a / b truncated toward zero
Truncated(a, b) == IF a >= 0 THEN a \div b ELSE 0 - ((0 - a) \div b)

\* the time from the departure of the first flight of r to the arrival of its last
Elapsed(r) ==
  r.flights[Len(r.flights)].arrival_datetime - r.flights[1].departure_datetime

\* C13: for every option of the response, total_duration is the arrival of the
\* last flight minus the departure of the first, in whole hours and minutes
\* (truncated), it is never negative, and the value the options are ranked by
\* is that same number of minutes.
C13_DurationExact ==
  \A i \in 1 .. Len(routes) :
    LET r == routes[i]
        minutes == Truncated(Elapsed(r), 60000)
    IN /\ r.total_duration.hours >= 0 /\ r.total_duration.minutes >= 0
       /\ r.total_duration = [hours |-> Truncated(minutes, 60), minutes |-> minutes % 60]
       /\ parseDuration(r.total_duration) = minutes

\* C14: when the store fails on a query of a get-routes request, the response
\* is a server-side error (5xx), never a success with an empty or partial list.
C14_StoreFailureIsServerError ==
  (searchCode # 0 /\ failedQueries # {}) => searchCode >= 500

\* request c is answered in this step
Answered(c) == calls[c].pc # "done" /\ calls'[c].pc = "done"

\* C15: a request during which the store failed to read the booking, or to read
\* or patch the latest event, is answered with a store error (5xx); the 404
\* 'Booking not found' is given only when no booking has the reference.
C15_StoreFailureIsStoreError ==
  [][\A c \in Calls :
       Answered(c) =>
         /\ (calls'[c].failedOps \cap {"read", "select", "patch"} # {})
              => calls'[c].resp.code >= 500
         /\ (calls'[c].resp.code = 404) => calls'[c].ref_id \notin DOMAIN bookings
    ]_vars

\* C16: a request is checked in the order (1) ref_id and status present,
\* (2) status one of the five statuses, (3) booking exists, (4) transition
\* allowed, and is answered with the error of the first rule it breaks; when
\* rule 1 or 2 is broken nothing is read from the store.
C16_FailFastOrder ==
  [][\A c \in Calls :
       Received(c) =>
         LET r == calls'[c].ref_id
             s == calls'[c].status
             missing == r \in {Null, ""} \/ s \in {Null, ""}
             unknown == s \notin FiveStatuses
             absent == r \notin DOMAIN bookings
         IN /\ missing => calls'[c].resp = RequiredError
            /\ (~missing /\ unknown) => calls'[c].resp = InvalidStatusError
            /\ (missing \/ unknown) => calls'[c].pc = "done" /\ calls'[c].current = Null
            /\ (~missing /\ ~unknown /\ absent) => calls'[c].resp = NotFoundError
            /\ (~missing /\ ~unknown /\ ~absent
                  /\ << bookings[r].status, s >> \notin ListedEdges) =>
                 calls'[c].resp = CannotChangeError(bookings[r].status, s)
            /\ (~missing /\ ~unknown /\ ~absent
                  /\ << bookings[r].status, s >> \in ListedEdges) =>
                 calls'[c].pc = "update" /\ calls'[c].current = bookings[r].status
    ]_vars

\* C16 witness: an unknown status for a reference no booking has is answered
\* 'Invalid status', and a request with an unknown status and no reference is
\* answered 'Booking reference and status are required'
C16_Witness ==
  \E c, d \in Calls :
    /\ calls[c].pc = "done" /\ calls[c].status = "UNKNOWN"
    /\ calls[c].ref_id \in RefPool \ DOMAIN bookings
    /\ calls[c].resp = InvalidStatusError
    /\ calls[d].pc = "done" /\ calls[d].ref_id = Null /\ calls[d].status = "UNKNOWN"
    /\ calls[d].resp = RequiredError

\* C17: when a request that supplies notes and / or a flight reference is
\* accepted (no other request being under way), the latest event of the booking
\* carries the supplied values and keeps its value in a field that was not
\* supplied; a request that supplies neither modifies no existing event.
C17_LatestEventPatched ==
  [][\A c \in Calls :
       (/\ Answered(c) /\ calls'[c].resp.code = 200
        /\ \A d \in Calls \ {c} : calls[d].pc = "new") =>
         LET r == calls[c].ref_id
             n == Len(events'[r])
             kept == \A i \in 1 .. Len(events[r]) : events'[r][i] = events[r][i]
         IN /\ ~Falsy(calls[c].notes) => events'[r][n].notes = calls[c].notes
            /\ ~Falsy(calls[c].flight_id) => events'[r][n].flight_id = calls[c].flight_id
            /\ (calls[c].pc = "patch" /\ Falsy(calls[c].notes)) =>
                 events'[r][n].notes = events[r][n].notes
            /\ (calls[c].pc = "patch" /\ Falsy(calls[c].flight_id)) =>
                 events'[r][n].flight_id = events[r][n].flight_id
            /\ (Falsy(calls[c].notes) /\ Falsy(calls[c].flight_id)) => kept
    ]_vars

\* the location the specification gives the event of a transition to status k
DefaultLocation(b, k) ==
  IF k = "DEPARTED" THEN b.origin
  ELSE IF k \in {"ARRIVED", "DELIVERED"} THEN b.destination
  ELSE Null

\* C18: a booking is created with exactly one event, of kind CREATED, and no
\* CREATED event is added later; every change of a booking's status adds exactly
\* one event, of the kind of the new status, located at the origin for DEPARTED,
\* at the destination for ARRIVED and DELIVERED, and nowhere for CANCELLED.
C18_EventLocationDefaults ==
  [][/\ \A r \in DOMAIN bookings' \ DOMAIN bookings :
          /\ bookings'[r].status = "BOOKED"
          /\ Len(events'[r]) = 1 /\ events'[r][1].event_type = "CREATED"
     /\ \A r \in DOMAIN bookings :
          /\ EventCount(r, "CREATED") = 1 /\ EventCount(r, "CREATED")' = 1
          /\ bookings'[r].status # bookings[r].status =>
               \E p \in 1 .. Len(events[r]) + 1 :
                 /\ events'[r] = InsertAt(events[r], p, events'[r][p])
                 /\ events'[r][p].event_type = bookings'[r].status
                 /\ events'[r][p].location
                      = DefaultLocation(bookings[r], bookings'[r].status)
    ]_vars

\* C18 witness: a booking created in BOOKED whose only accepted request asked
\* for DEPARTED has the events CREATED and DEPARTED, the latter at the origin
C18_Witness ==
  \E c \in Calls :
    /\ Succeeded(c) /\ calls[c].status = "DEPARTED" /\ calls[c].current = "BOOKED"
    /\ accepted[calls[c].ref_id] = << "DEPARTED" >>
    /\ Len(events[calls[c].ref_id]) = 2
    /\ events[calls[c].ref_id][1].event_type = "CREATED"
    /\ events[calls[c].ref_id][2].event_type = "DEPARTED"
    /\ events[calls[c].ref_id][2].location = bookings[calls[c].ref_id].origin
    /\ bookings[calls[c].ref_id].origin # bookings[calls[c].ref_id].destination

\* a get-routes request value that is missing or empty
Missing(x) == x \in {Null, ""}

\* C19: a get-routes request is answered with a validation error (4xx) exactly
\* when origin, destination or departure_date is missing or empty, and then
\* with no routes; a request with the three values present is a success, with
\* an empty list when no flight matches.
C19_ValidationExactlyWhenMissing ==
  searchCode # 0 =>
    LET missing == Missing(query.origin) \/ Missing(query.destination)
                     \/ Missing(query.departure_date)
    IN /\ (searchCode \in 400 .. 499) <=> missing
       /\ missing => routes = << >>
       /\ ~missing => searchCode = 200
       /\ (~missing /\ \A f \in catalog : f.origin # query.origin) => routes = << >>

\* the second-hop candidates of first hop F: flights from F's destination to the
\* query's destination departing in [F.arrival, F.arrival + 2 days)
Candidates(F) ==
  { G \in catalog :
      /\ G.origin = F.destination /\ G.destination = query.destination
      /\ G.departure_datetime >= F.arrival_datetime
      /\ G.departure_datetime < F.arrival_datetime + 2 * 86400000 }

\* the second flights of the transit options of the response that start with F
ListedConnections(F) ==
  { routes[i].flights[2] :
      i \in { j \in 1 .. Len(routes) : routes[j].type = "transit" /\ routes[j].flights[1] = F } }

\* C20: for every first hop F the response has at most 3 transit options that
\* start with F, and the second flight of each is one of the 3 earliest-departing
\* second-hop candidates of F.
C20_AtMostThreePerFirstHop ==
  \A F \in catalog :
    /\ Cardinality({ i \in 1 .. Len(routes) :
                       routes[i].type = "transit" /\ routes[i].flights[1] = F }) <= 3
    /\ \A G \in ListedConnections(F) :
         /\ G \in Candidates(F)
         /\ Cardinality({ H \in Candidates(F) :
                            H.departure_datetime < G.departure_datetime }) < 3

\* C20 witness: a first hop with four candidates that all leave two hours or
\* more after it lands; three of them are listed
C20_Witness ==
  \E F \in catalog :
    /\ searchCode = 200
    /\ Cardinality(Candidates(F)) >= 4
    /\ \A G \in Candidates(F) :
         G.departure_datetime - F.arrival_datetime >= 2 * 3600000
    /\ Cardinality(ListedConnections(F)) = 3

\* the catalog flights from the query's origin to the query's destination that
\* depart in [start, start + 1 day), start being the instant of departure_date
WindowFlights ==
  { f \in catalog :
      /\ f.origin = query.origin /\ f.destination = query.destination
      /\ f.departure_datetime >= DateMs(query.departure_date)
      /\ f.departure_datetime < DateMs(query.departure_date) + 86400000 }

\* the positions of the direct options of the response
DirectOptions == { i \in 1 .. Len(routes) : routes[i].type = "direct" }

\* C21: the direct options of a response are exactly the catalog flights from
\* the query's origin to its destination departing in [start, start + 1 day),
\* one option per flight; a flight departing at start + 1 day yields none.
C21_DirectExactlyWindow ==
  searchCode = 200 =>
    /\ { routes[i].flights[1] : i \in DirectOptions } = WindowFlights
    /\ Cardinality(DirectOptions) = Cardinality(WindowFlights)

\* C21 witness: the catalog has a flight departing exactly at start, one inside
\* the day and one exactly at start + 1 day; the first two are listed
C21_Witness ==
  /\ searchCode = 200
  /\ Cardinality(DirectOptions) = 2
  /\ \E f, g, h \in catalog :
       /\ f.origin = query.origin /\ f.destination = query.destination
       /\ g.origin = query.origin /\ g.destination = query.destination
       /\ h.origin = query.origin /\ h.destination = query.destination
       /\ f.departure_datetime = DateMs(query.departure_date)
       /\ g.departure_datetime > DateMs(query.departure_date)
       /\ g.departure_datetime < DateMs(query.departure_date) + 86400000
       /\ h.departure_datetime = DateMs(query.departure_date) + 86400000

\* C22: BOOKED passes the known-status check, but a request for BOOKED is never
\* accepted, whatever the status of the booking, and no booking's status
\* changes to BOOKED once the booking exists.
C22_BookedOnlyAtCreation ==
  [][/\ \A c \in Calls :
          /\ (Received(c) /\ calls'[c].status = "BOOKED"
                /\ calls'[c].ref_id \in DOMAIN bookings) =>
               /\ calls'[c].pc = "done"
               /\ calls'[c].resp = CannotChangeError(bookings[calls'[c].ref_id].status, "BOOKED")
               /\ StoreUnchanged
          /\ (Answered(c) /\ calls'[c].status = "BOOKED") => calls'[c].resp.code # 200
     /\ \A r \in DOMAIN bookings :
          bookings'[r].status = "BOOKED" => bookings[r].status = "BOOKED"
    ]_vars

\* C22 witness: a request for BOOKED on a BOOKED booking was answered 'Cannot
\* change status from BOOKED to BOOKED', and a request for DEPARTED was accepted
C22_Witness ==
  \E c, d \in Calls :
    /\ calls[c].pc = "done" /\ calls[c].status = "BOOKED" /\ calls[c].current = "BOOKED"
    /\ calls[c].resp = CannotChangeError("BOOKED", "BOOKED")
    /\ Succeeded(d) /\ calls[d].ref_id = calls[c].ref_id /\ calls[d].status = "DEPARTED"
    /\ bookings[calls[d].ref_id].status = "DEPARTED"

\* the kinds of the events in es, oldest first
Kinds(es) == [i \in 1 .. Len(es) |-> es[i].event_type]

\* the kind of the latest event of a booking with status st
LatestKindFor(st) == IF st = "BOOKED" THEN "CREATED" ELSE st

\* C23: the kinds of a booking's events, oldest first by created_at, are CREATED
\* followed by the statuses the booking passed through, in that order: the list
\* starts with CREATED, grows at its end by the new status exactly when the
\* booking's status changes, and the kind of the latest event is the booking's
\* status (CREATED while the status is BOOKED).
C23_EventsFollowStatus ==
  [][/\ \A r \in DOMAIN bookings :
          /\ Kinds(events[r])[1] = "CREATED"
          /\ Kinds(events[r])[Len(events[r])] = LatestKindFor(bookings[r].status)
          /\ Kinds(events'[r]) = IF bookings'[r].status # bookings[r].status
                                 THEN Append(Kinds(events[r]), bookings'[r].status)
                                 ELSE Kinds(events[r])
     /\ \A r \in DOMAIN bookings' :
          /\ Kinds(events'[r])[1] = "CREATED"
          /\ Kinds(events'[r])[Len(events'[r])] = LatestKindFor(bookings'[r].status)
    ]_vars

\* C24: no two stored bookings have the same ref_id, whatever inserts were made.
C24_RefIdsUnique ==
  \A i, j \in 1 .. Len(refColumn) : i # j => refColumn[i] # refColumn[j]

\* C24 witness: two bookings are stored, an insert with the ref_id of a stored row
\* failed, and a create-booking request was answered 500 with nothing stored
C24_Witness ==
  \E t, u \in Inserts :
    /\ t # u
    /\ inserts[t].pc = "failed" /\ inserts[t].user_id = Null
    /\ \E i \in 1 .. Len(refColumn) : refColumn[i] = inserts[t].ref_id
    /\ inserts[u].resp = CreateFailedError
    /\ Len(refColumn) >= 2

\* C25: for every status of a booking and every requested status, the booking
\* details page offers the button for the requested status exactly when
\* update-booking-status accepts that request for a booking in that status.
C25_ClientAgreesWithServer ==
  [][\A c \in Calls :
       (Received(c) /\ calls'[c].ref_id \in DOMAIN bookings) =>
         ((calls'[c].pc = "update")
            <=> ButtonOffered(bookings[calls'[c].ref_id].status, calls'[c].status))
    ]_vars

\* C25 witness: a request the page offers (BOOKED to CANCELLED) was accepted and
\* a request it does not offer (CANCELLED to DEPARTED) was rejected
C25_Witness ==
  \E c, d \in Calls :
    /\ Succeeded(c) /\ calls[c].current = "BOOKED" /\ calls[c].status = "CANCELLED"
    /\ ButtonOffered(calls[c].current, calls[c].status)
    /\ calls[d].pc = "done" /\ calls[d].current = "CANCELLED" /\ calls[d].status = "DEPARTED"
    /\ calls[d].resp.code = 400
    /\ ~ButtonOffered(calls[d].current, calls[d].status)

\* C26: a request for CANCELLED on an ARRIVED or DELIVERED booking is rejected
\* by the transition-table check, with 'Cannot change status from {current} to
\* CANCELLED'; no request is ever answered 'Cannot cancel booking that has
\* already arrived'.
C26_CancelGuardNeverDecides ==
  [][\A c \in Calls :
       /\ calls'[c].resp # CannotCancelError
       /\ (Received(c) /\ calls'[c].ref_id \in DOMAIN bookings
                       /\ calls'[c].status = "CANCELLED"
                       /\ bookings[calls'[c].ref_id].status \in {"ARRIVED", "DELIVERED"}) =>
            calls'[c].resp = CannotChangeError(bookings[calls'[c].ref_id].status, "CANCELLED")
    ]_vars

\* C26 witness: CANCELLED was requested for an ARRIVED booking and answered
\* 'Cannot change status from ARRIVED to CANCELLED'; the booking is still ARRIVED
C26_Witness ==
  \E c \in Calls :
    /\ calls[c].pc = "done" /\ calls[c].status = "CANCELLED"
    /\ calls[c].current = "ARRIVED"
    /\ calls[c].resp = CannotChangeError("ARRIVED", "CANCELLED")
    /\ bookings[calls[c].ref_id].status = "ARRIVED"

\* the store after a write of status st to booking r whose event, if one is
\* added, takes place p among the events: a function of the store before, r, st
\* and p alone
StoreAfterWrite(r, st, p) ==
  [bookings |-> [bookings EXCEPT ![r].status = st],
   events |-> [events EXCEPT ![r] =
                 IF bookings[r].status = st THEN @
                 ELSE InsertAt(@, p, [event_type |-> st,
                                      location |-> DefaultLocation(bookings[r], st),
                                      notes |-> Null, flight_id |-> Null])]]

\* C27: the location of a request has no effect on what is stored: whether a
\* request goes on to its write follows from the reference, the requested
\* status and the store alone, and the write leaves the bookings and events
\* that follow from these alone (and from the place the event takes in the
\* order of created_at), the event being located by the new status and the
\* booking's origin and destination; the other steps of a request write nothing.
C27_LocationIgnored ==
  [][\A c \in Calls :
       /\ Received(c) =>
            /\ StoreUnchanged
            /\ (calls'[c].pc = "update") <=>
                 /\ calls'[c].ref_id \in DOMAIN bookings
                 /\ << bookings[calls'[c].ref_id].status, calls'[c].status >> \in ListedEdges
       /\ Wrote(c) =>
            \E p \in 1 .. Len(events[calls[c].ref_id]) + 1 :
              /\ bookings' = StoreAfterWrite(calls[c].ref_id, calls[c].status, p).bookings
              /\ events' = StoreAfterWrite(calls[c].ref_id, calls[c].status, p).events
    ]_vars

\* C27 witness: two requests for DEPARTED on the same booking, one with location
\* HYD and one without, were accepted; the DEPARTED event is at the origin
C27_Witness ==
  \E c, d \in Calls :
    /\ Succeeded(c) /\ Succeeded(d)
    /\ calls[c].ref_id = calls[d].ref_id
    /\ calls[c].status = "DEPARTED" /\ calls[d].status = "DEPARTED"
    /\ calls[c].location = "HYD" /\ calls[d].location = Null
    /\ \A i \in 1 .. Len(events[calls[c].ref_id]) :
         events[calls[c].ref_id][i].location = bookings[calls[c].ref_id].origin
    /\ Kinds(events[calls[c].ref_id]) = << "CREATED", "DEPARTED" >>

\* the statuses booking r has had, oldest first
StatusHistory(r) == << "BOOKED" >> \o accepted[r]

\* C28: when the requests on a booking do not overlap, the booking has at most
\* 3 accepted transitions and at most 4 events, has had no status twice, and
\* the statuses from which no request is accepted are exactly DELIVERED and
\* CANCELLED.
C28_AcyclicBounded ==
  \A r \in DOMAIN bookings :
    /\ Len(accepted[r]) <= 3
    /\ Len(events[r]) <= 4
    /\ Len(events[r]) = Len(accepted[r]) + 1
    /\ \A i, j \in 1 .. Len(StatusHistory(r)) :
         i # j => StatusHistory(r)[i] # StatusHistory(r)[j]
    /\ StatusHistory(r)[Len(StatusHistory(r))] = bookings[r].status
    /\ (\A s \in FiveStatuses : TransitionCheck(table, bookings[r].status, s) # NoResponse)
         <=> bookings[r].status \in {"DELIVERED", "CANCELLED"}

\* C28 witness: a booking was taken to DELIVERED by its third accepted request,
\* has 4 events, and a later request on it was rejected
C28_Witness ==
  \E c, d \in Calls :
    /\ Succeeded(c) /\ calls[c].status = "DELIVERED"
    /\ accepted[calls[c].ref_id] = << "DEPARTED", "ARRIVED", "DELIVERED" >>
    /\ Len(events[calls[c].ref_id]) = 4
    /\ calls[d].pc = "done" /\ calls[d].ref_id = calls[c].ref_id
    /\ calls[d].current = "DELIVERED" /\ calls[d].resp.code = 400

\* request c supplied notes or a flight reference
Supplied(c) == ~Falsy(calls[c].notes) \/ ~Falsy(calls[c].flight_id)

\* C29: whatever the interleaving, a request that supplied notes or a flight
\* reference and is answered with success has them on the event its own status
\* change created, and its patch modifies no other event.
C29_PatchOnOwnEvent ==
  [][\A c \in Calls :
       (Answered(c) /\ calls'[c].resp.code = 200 /\ Supplied(c)) =>
         LET r == calls[c].ref_id
             own == calls[c].ownEvent
         IN /\ own # 0
            /\ \A i \in 1 .. Len(events[r]) : i # own => events'[r][i] = events[r][i]
            /\ ~Falsy(calls[c].notes) => events'[r][own].notes = calls[c].notes
            /\ ~Falsy(calls[c].flight_id) => events'[r][own].flight_id = calls[c].flight_id
    ]_vars

\* the responses of the early returns: a missing field, an unknown status, a
\* booking that is not found, a transition that is not allowed
Rejection(resp) == resp.code \in {400, 404}

\* C30: a request that is rejected (missing field, unknown status, booking not
\* found, transition not allowed) leaves every booking and every event as they
\* were, notes and flight reference included, whether or not it carried notes or
\* a flight reference.
C30_RejectedChangesNothing ==
  [][\A c \in Calls :
       (Answered(c) /\ Rejection(calls'[c].resp)) =>
         /\ bookings' = bookings
         /\ events' = events
         /\ accepted' = accepted
    ]_vars

\* a request carrying notes and a flight reference was refused its transition on
\* a booking whose events are all still without notes and flight reference
C30_Witness ==
  \E c \in Calls :
    /\ calls[c].pc = "done"
    /\ calls[c].resp.code = 400
    /\ calls[c].resp.current # Null
    /\ ~Falsy(calls[c].notes)
    /\ ~Falsy(calls[c].flight_id)
    /\ \A i \in 1 .. Len(events[calls[c].ref_id]) :
         /\ events[calls[c].ref_id][i].notes = Null
         /\ events[calls[c].ref_id][i].flight_id = Null

====
